---- MODULE Spec2Model ----
(***************************************************************************)
(* A model of james-bowman/datautils, metrics.go: the ranking evaluation,  *)
(* the precision-recall curve and the confusion matrix.                    *)
(*                                                                         *)
(* Numbers.  Scores are float64 in the source; here a score is the integer *)
(* number of hundredths (0.35 is 35), which keeps the order and the ties.  *)
(* Labels are the integers the tests use (and negative ones).  A float64   *)
(* quotient of two small integers is kept as the reduced fraction          *)
(* [num, den]: two such quotients are the same float64 exactly when the    *)
(* fractions are equal.  den = 0 stands for the IEEE results of a division *)
(* by zero: 0/0 is NaN, 1/0 is +Inf, -1/0 is -Inf.  The sums taken by      *)
(* AveragePrecision and by the discounted gains, and math.Log2 in the      *)
(* latter, are computed bit for bit as float64 computes them.              *)
(*                                                                         *)
(* Indices.  Go slices start at 0, TLA+ sequences at 1: the Go element     *)
(* s[i] is s[i+1] here.  Index VALUES (the contents of PredictedRankInd,   *)
(* PerfectRankInd, ind) are the Go values, 0-based.                        *)
(***************************************************************************)
EXTENDS Integers, Sequences, FiniteSets, TLC

\* predictions, labels: the caller's two slices.  pc: "start", then "built" once a
\* constructor has returned, "returned" once a method has, "panicked" after a
\* panic.  made: the constructor call; obj: the object it returned; call: the
\* method call; ret: what the last call returned, or its panic.
VARIABLES predictions, labels, pc, made, obj, call, ret

vars == <<predictions, labels, pc, made, obj, call, ret>>

\* Longest score/label sequence drawn from the grid of inputs.
MaxLen == 3

\* Longest run of positive items tried, all of different scores.
MaxPositives == 9

\* Scores of the grid, in hundredths (ties happen from two items on).
ScoreValues == {10, 40, 80}

\* Labels of the grid: negative, zero, one, and a graded relevance above one.
LabelValues == {-2, 0, 1, 2}

\* Recall levels tried, in tenths: 0, two levels inside the curve, 1.0, and 1.2.
RecallLevels == {0, 3, 5, 10, 12}

\* Decision thresholds tried, in hundredths: one equal to a grid score, and 0.5.
ThresholdValues == {40, 50}

\* The data sets of the tests (probs in hundredths), and the confusion-matrix
\* scenario scores=[0.1,0.9,0.6,0.3], labels=[0,1,1,0].
Datasets ==
    {[probs |-> <<10, 40, 35, 80>>, labels |-> <<0, 0, 1, 1>>],
     [probs |-> <<10, 40, 35, 80, 85>>, labels |-> <<0, 0, 1, 1, 0>>],
     [probs |-> <<2, 10, 40, 35, 80, 85>>, labels |-> <<1, 0, 0, 1, 1, 0>>],
     [probs |-> <<2, 10>>, labels |-> <<0, 0>>],
     [probs |-> <<10, 90, 60, 30>>, labels |-> <<0, 1, 1, 0>>]}

\* Thirteen items, one more than sort.Sort sorts by insertion, the first two
\* of equal score, and labels that repeat.
LongDatasets ==
    {[probs |-> <<80, 80, 10, 20, 30, 40, 50, 60, 70, 85, 90, 95, 99>>,
      labels |-> <<1, 0, 0, 0, 1, 0, 0, 0, 0, 1, 0, 2, 0>>]}

\* 1 to MaxPositives positive items by rising score, alone or after one
\* negative item whose score is below all of theirs.
PositiveRuns ==
    {[probs |-> SubSeq([slot \in 1..(below + n) |->
                           IF slot <= below THEN 5 ELSE 10 * (slot - below)],
                       1, below + n),
      labels |-> SubSeq([slot \in 1..(below + n) |-> IF slot <= below THEN 0 ELSE 1],
                        1, below + n)] : n \in 1..MaxPositives, below \in 0..1}

\* The length of the longest input.
LongestInput ==
    LET lens == {Len(d.labels) : d \in Datasets \cup LongDatasets \cup PositiveRuns} \cup {MaxLen}
    IN CHOOSE n \in lens : \A m \in lens : m <= n

\* ------------------------------------------------------------------------
\* float64 values

RECURSIVE GCD(_, _)
GCD(a, b) == IF b = 0 THEN a ELSE GCD(b, a % b)

Abs(x) == IF x < 0 THEN -x ELSE x

Sign(x) == IF x < 0 THEN -1 ELSE IF x = 0 THEN 0 ELSE 1

NaN == [num |-> 0, den |-> 0]

\* float64(n) / float64(d), IEEE: x/0 is +-Inf, 0/0 is NaN.
Rat(n, d) ==
    IF d = 0 THEN [num |-> Sign(n), den |-> 0]
    ELSE LET g == GCD(Abs(n), Abs(d))
         IN [num |-> Sign(d) * (n \div g), den |-> Abs(d) \div g]

Zero == Rat(0, 1)
One == Rat(1, 1)

IsFinite(x) == x.den > 0

\* a < b, a <= b; every comparison with NaN is false.
RatLt(a, b) == IsFinite(a) /\ IsFinite(b) /\ a.num * b.den < b.num * a.den
RatLe(a, b) == IsFinite(a) /\ IsFinite(b) /\ a.num * b.den <= b.num * a.den

\* ------------------------------------------------------------------------
\* float64 arithmetic, bit for bit
\*
\* A sum of float64 products is rounded at every step, so it is computed here
\* as IEEE 754 does: on the 53-bit significands, rounding to nearest, ties to
\* even.  A natural number of any size is the sequence of its digits in base
\* 2^15, the lowest first (<<>> is 0), so that no product of two digits leaves
\* 32 bits.

Radix == 32768

RECURSIVE bigTrim(_)
bigTrim(a) ==
    IF a = <<>> THEN a
    ELSE IF a[Len(a)] = 0 THEN bigTrim(SubSeq(a, 1, Len(a) - 1)) ELSE a

digit(a, i) == IF i <= Len(a) THEN a[i] ELSE 0

RECURSIVE bigFromNat(_)
bigFromNat(n) == IF n = 0 THEN <<>> ELSE <<n % Radix>> \o bigFromNat(n \div Radix)

RECURSIVE addFrom(_, _, _, _)
addFrom(a, b, i, carry) ==
    IF i > Len(a) /\ i > Len(b)
    THEN IF carry = 0 THEN <<>> ELSE <<carry>>
    ELSE LET t == digit(a, i) + digit(b, i) + carry
         IN <<t % Radix>> \o addFrom(a, b, i + 1, t \div Radix)

bigAdd(a, b) == addFrom(a, b, 1, 0)

RECURSIVE subFrom(_, _, _, _)
subFrom(a, b, i, borrow) ==
    IF i > Len(a)
    THEN <<>>
    ELSE LET t == a[i] - digit(b, i) - borrow
         IN <<IF t < 0 THEN t + Radix ELSE t>> \o subFrom(a, b, i + 1, IF t < 0 THEN 1 ELSE 0)

\* a - b, for a >= b.
bigSub(a, b) == bigTrim(subFrom(a, b, 1, 0))

RECURSIVE lessFrom(_, _, _)
lessFrom(a, b, i) ==
    IF i = 0 THEN FALSE
    ELSE IF a[i] # b[i] THEN a[i] < b[i] ELSE lessFrom(a, b, i - 1)

bigLess(a, b) ==
    LET x == bigTrim(a)
        y == bigTrim(b)
    IN IF Len(x) # Len(y) THEN Len(x) < Len(y) ELSE lessFrom(x, y, Len(x))

\* a * d, for a digit d.
RECURSIVE mulFrom(_, _, _, _)
mulFrom(a, d, i, carry) ==
    IF i > Len(a)
    THEN IF carry = 0 THEN <<>> ELSE <<carry>>
    ELSE LET t == a[i] * d + carry
         IN <<t % Radix>> \o mulFrom(a, d, i + 1, t \div Radix)

bigMulDigit(a, d) == mulFrom(a, d, 1, 0)

\* a * Radix^n
bigShiftDigits(a, n) == SubSeq([slot \in 1..n |-> 0], 1, n) \o a

RECURSIVE mulRows(_, _, _)
mulRows(a, b, j) ==
    IF j > Len(b)
    THEN <<>>
    ELSE bigAdd(bigShiftDigits(bigMulDigit(a, b[j]), j - 1), mulRows(a, b, j + 1))

bigMul(a, b) == mulRows(a, b, 1)

\* Quotient and remainder of a by d, 0 < d < Radix, from the highest digit i
\* down, rem being the remainder carried in.
RECURSIVE divFrom(_, _, _, _)
divFrom(a, d, i, rem) ==
    IF i = 0
    THEN [q |-> <<>>, r |-> rem]
    ELSE LET t == rem * Radix + a[i]
             rest == divFrom(a, d, i - 1, t % d)
         IN [q |-> Append(rest.q, t \div d), r |-> rest.r]

bigDivDigit(a, d) == divFrom(a, d, Len(a), 0)

\* a * 2^bits and a \div 2^bits
bigShl(a, bits) == bigShiftDigits(bigMulDigit(a, 2 ^ (bits % 15)), bits \div 15)

bigShr(a, bits) ==
    IF bits \div 15 >= Len(a)
    THEN <<>>
    ELSE bigDivDigit(SubSeq(a, (bits \div 15) + 1, Len(a)), 2 ^ (bits % 15)).q

\* a % 2^bits
bigLow(a, bits) ==
    IF bits \div 15 >= Len(a)
    THEN a
    ELSE Append(SubSeq(a, 1, bits \div 15), a[(bits \div 15) + 1] % (2 ^ (bits % 15)))

RECURSIVE bitLen(_)
bitLen(n) == IF n = 0 THEN 0 ELSE 1 + bitLen(n \div 2)

bigBitLen(a) ==
    LET x == bigTrim(a)
    IN IF x = <<>> THEN 0 ELSE 15 * (Len(x) - 1) + bitLen(x[Len(x)])

\* A float64 is [neg, man, exp] for (-1)^neg * man * 2^exp, man of exactly 53
\* bits; 0.0 and -0.0, which compare equal, are both F64Zero.  (Subnormals do
\* not arise in the sums taken here, and no sum makes -0.0.)  The infinities
\* and NaN, which only a division returns, have the exponent 1024, above that
\* of every finite value, as they have in IEEE 754.
F64Zero == [neg |-> FALSE, man |-> <<>>, exp |-> 0]

\* (-1)^neg * q * 2^e for a q of 53 bits, or of 54 after a carry.
roundCarried(neg, q, e) ==
    IF bigBitLen(q) > 53
    THEN [neg |-> neg, man |-> bigTrim(bigShr(q, 1)), exp |-> e + 1]
    ELSE [neg |-> neg, man |-> bigTrim(q), exp |-> e]

\* The leading 53 bits q of a longer number, rounded by the bits r cut off
\* below them: up when r is above half, or is half and q is odd.
roundCut(neg, q, r, half, e) ==
    roundCarried(neg,
                 IF bigLess(half, r) \/ (~bigLess(r, half) /\ digit(q, 1) % 2 = 1)
                 THEN bigAdd(q, <<1>>)
                 ELSE q,
                 e)

\* The float64 nearest to (-1)^neg * m * 2^e for an m of len bits.
roundBits(neg, m, e, len) ==
    IF len = 0
    THEN F64Zero
    ELSE IF len <= 53
         THEN [neg |-> neg, man |-> bigTrim(bigShl(m, 53 - len)), exp |-> e - (53 - len)]
         ELSE roundCut(neg, bigTrim(bigShr(m, len - 53)), bigLow(m, len - 53),
                       bigShl(<<1>>, len - 54), e + len - 53)

\* The float64 nearest to (-1)^neg * m * 2^e, ties to even.
roundToFloat64(neg, m, e) ==
    CHOOSE r \in {roundBits(neg, n, e, bigBitLen(n)) : n \in {m}} : TRUE

\* float64(n) / float64(d) for integers n and 0 < d < Radix: the quotient
\* n * 2^75 / d is cut to an integer and a last bit is set when the division
\* left a remainder, which is enough for the rounding to come out right.
F64Quotient(n, d) ==
    IF n = 0
    THEN F64Zero
    ELSE LET dv == bigDivDigit(bigShl(bigFromNat(Abs(n)), 75), d)
             sticky == IF dv.r = 0 THEN <<>> ELSE <<1>>
         IN roundToFloat64(n < 0, bigAdd(bigMulDigit(dv.q, 2), sticky), -76)

\* The float64 a curve holds where the model keeps the fraction x.
F64(x) == F64Quotient(x.num, x.den)

F64One == F64Quotient(1, 1)

\* Every operation below takes the values of its operands: each operand is
\* evaluated once, to a float64, before the operation is worked out on it.

negated(a) == IF a.man = <<>> THEN a ELSE [a EXCEPT !.neg = ~a.neg]

F64Neg(x) == CHOOSE r \in {negated(a) : a \in {x}} : TRUE

\* The float64 nearest to the sum of two values that are not 0, given by sign,
\* magnitude and exponent; the magnitudes may be longer than 53 bits.
addAligned(xneg, mx, yneg, my, e) ==
    roundToFloat64(IF xneg = yneg \/ ~bigLess(mx, my) THEN xneg ELSE yneg,
                   IF xneg = yneg
                   THEN bigAdd(mx, my)
                   ELSE IF bigLess(mx, my) THEN bigSub(my, mx) ELSE bigSub(mx, my),
                   e)

addRounded(xneg, xm, xe, yneg, ym, ye) ==
    CHOOSE r \in {addAligned(xneg, bigShl(xm, xe - e), yneg, bigShl(ym, ye - e), e) :
                     e \in {IF xe < ye THEN xe ELSE ye}} : TRUE

added(a, b) ==
    IF a.man = <<>> THEN b
    ELSE IF b.man = <<>> THEN a
    ELSE addRounded(a.neg, a.man, a.exp, b.neg, b.man, b.exp)

F64Add(x, y) == CHOOSE r \in {added(a, b) : a \in {x}, b \in {y}} : TRUE

F64Sub(x, y) == F64Add(x, F64Neg(y))

multiplied(a, b) ==
    IF a.man = <<>> \/ b.man = <<>>
    THEN F64Zero
    ELSE roundToFloat64(a.neg # b.neg, bigMul(a.man, b.man), a.exp + b.exp)

F64Mul(x, y) == CHOOSE r \in {multiplied(a, b) : a \in {x}, b \in {y}} : TRUE

\* x * y + z rounded once, the fused multiply-add.
multipliedAdded(a, b, c) ==
    IF a.man = <<>> \/ b.man = <<>>
    THEN c
    ELSE IF c.man = <<>>
         THEN multiplied(a, b)
         ELSE addRounded(a.neg # b.neg, bigMul(a.man, b.man), a.exp + b.exp,
                         c.neg, c.man, c.exp)

F64MulAdd(x, y, z) == CHOOSE r \in {multipliedAdded(a, b, c) : a \in {x}, b \in {y}, c \in {z}} : TRUE

\* x < y
F64Less(x, y) ==
    LET d == F64Sub(x, y)
    IN d.man # <<>> /\ d.neg

F64Inf(neg) == [neg |-> neg, man |-> <<>>, exp |-> 1024]

F64NaN == [neg |-> FALSE, man |-> <<1>>, exp |-> 1024]

F64IsFinite(x) == x.exp # 1024

\* Long division by a d of several digits whose highest digit has all its 15
\* bits.  The digit guessed from the two highest digits of the remainder t is
\* never below the digit of the quotient, and digitFit brings it down to it.
digitGuess(t, d) ==
    IF Len(t) < Len(d)
    THEN 0
    ELSE IF (digit(t, Len(d) + 1) * Radix + t[Len(d)]) \div d[Len(d)] < Radix
         THEN (digit(t, Len(d) + 1) * Radix + t[Len(d)]) \div d[Len(d)]
         ELSE Radix - 1

RECURSIVE digitFit(_, _, _)
digitFit(t, d, q) ==
    IF bigLess(t, bigMulDigit(d, q)) THEN digitFit(t, d, q - 1) ELSE q

digitAppended(rest, q) == [q |-> Append(rest.q, q), r |-> rest.r]

\* Quotient and remainder of a by d from the highest digit i down, rem being
\* the remainder carried in, rem < d: t is rem with the digit a[i] brought
\* down, and q the digit of the quotient that t gives.
RECURSIVE divLong(_, _, _, _)
divLongTake(a, d, i, t, q) ==
    digitAppended(divLong(a, d, i - 1, IF q = 0 THEN t ELSE bigSub(t, bigMulDigit(d, q))), q)

divLongStep(a, d, i, t) ==
    divLongTake(a, d, i, t, IF Len(t) < Len(d) THEN 0 ELSE digitFit(t, d, digitGuess(t, d)))

divLong(a, d, i, rem) ==
    IF i = 0
    THEN [q |-> <<>>, r |-> rem]
    ELSE divLongStep(a, d, i, bigTrim(<<a[i]>> \o rem))

\* The quotient of the significands, scaled by 2^56 and cut to an integer,
\* with a last bit set below it when the division left a remainder.
quotientRounded(neg, dv, e) ==
    roundToFloat64(neg,
                   bigAdd(bigMulDigit(bigTrim(dv.q), 2),
                          IF dv.r = <<>> THEN <<>> ELSE <<1>>),
                   e)

\* a / b for a and b that are not 0; both significands are shifted by the
\* same number of bits to fill the highest digit of the divisor.
dividedBy(a, b, shift) ==
    CHOOSE r \in
        {quotientRounded(a.neg # b.neg, divLong(n, bigShl(b.man, shift), Len(n), <<>>),
                         a.exp - b.exp - 57) :
           n \in {bigShl(a.man, 56 + shift)}} : TRUE

\* x / y for finite x and y: x/0 is +-Inf and 0/0 is NaN.
divided(a, b) ==
    IF b.man = <<>>
    THEN IF a.man = <<>> THEN F64NaN ELSE F64Inf(a.neg)
    ELSE IF a.man = <<>>
         THEN F64Zero
         ELSE dividedBy(a, b, 15 - bitLen(b.man[Len(b.man)]))

F64Div(x, y) == CHOOSE r \in {divided(a, b) : a \in {x}, b \in {y}} : TRUE

\* ------------------------------------------------------------------------
\* math.Log2 and math.Pow, as Go's package math computes them in float64

F64Half == F64Quotient(1, 2)

F64Two == F64Quotient(2, 1)

\* The constants of math.log, by their bits.
\* Ln2Hi = 6.93147180369123816490e-01 (3FE62E42 FEE00000)
Ln2Hi == [neg |-> FALSE, man |-> <<0, 32192, 14603, 177>>, exp |-> -53]
\* Ln2Lo = 1.90821492927058770002e-10 (3DEA39EF 35793C76)
Ln2Lo == [neg |-> FALSE, man |-> <<15478, 27378, 26556, 209>>, exp |-> -85]
\* L1 = 6.666666666666735130e-01 (3FE55555 55555593)
L1 == [neg |-> FALSE, man |-> <<21907, 10922, 21845, 170>>, exp |-> -53]
\* L2 = 3.999999999940941908e-01 (3FD99999 9997FA04)
L2 == [neg |-> FALSE, man |-> <<31236, 13103, 26214, 204>>, exp |-> -54]
\* L3 = 2.857142874366239149e-01 (3FD24924 94229359)
L3 == [neg |-> FALSE, man |-> <<4953, 10309, 9362, 146>>, exp |-> -54]
\* L4 = 2.222219843214978396e-01 (3FCC71C5 1D8E78AF)
L4 == [neg |-> FALSE, man |-> <<30895, 15132, 18196, 227>>, exp |-> -55]
\* L5 = 1.818357216161805012e-01 (3FC74664 96CB03DE)
L5 == [neg |-> FALSE, man |-> <<990, 11670, 6546, 186>>, exp |-> -55]
\* L6 = 1.531383769920937332e-01 (3FC39A09 D078C69F)
L6 == [neg |-> FALSE, man |-> <<18079, 8433, 26663, 156>>, exp |-> -55]
\* L7 = 1.479819860511658591e-01 (3FC2F112 DF3E5244)
L7 == [neg |-> FALSE, man |-> <<21060, 15996, 17483, 151>>, exp |-> -55]
\* Sqrt2/2 = 0.7071067811865476 (3FE6A09E 667F3BCD)
Sqrt2Over2 == [neg |-> FALSE, man |-> <<15309, 19710, 633, 181>>, exp |-> -53]
\* 1/Ln2 = 1.4426950408889634 (3FF71547 652B82FE)
InvLn2 == [neg |-> FALSE, man |-> <<766, 19031, 21789, 184>>, exp |-> -52]

\* math.Frexp(x) for a finite x that is not 0: x = frac * 2^exp, frac in [1/2, 1).
Frexp(x) == [frac |-> [x EXCEPT !.exp = -53], exp |-> x.exp + 53]

\* math.log, one operator for every assignment of the Go code, each taking
\* the variables assigned before it and handing on the one it assigns.
\*
\*   return k*Ln2Hi - ((hfsq - (s*(hfsq+R) + k*Ln2Lo)) - f)
logReturn(f, k, s, R, hfsq) ==
    F64Sub(F64Mul(k, Ln2Hi),
           F64Sub(F64Sub(hfsq, F64Add(F64Mul(s, F64Add(hfsq, R)), F64Mul(k, Ln2Lo))), f))

\*   hfsq := 0.5 * f * f
logFromR(f, k, s, R) == logReturn(f, k, s, R, F64Mul(F64Mul(F64Half, f), f))

\*   t1 := s2 * (L1 + s4*(L3+s4*(L5+s4*L7)))
\*   t2 := s4 * (L2 + s4*(L4+s4*L6))
\*   R := t1 + t2
logFromS4(f, k, s, s2, s4) ==
    logFromR(f, k, s,
             F64Add(F64Mul(s2, F64Add(L1, F64Mul(s4, F64Add(L3, F64Mul(s4, F64Add(L5, F64Mul(s4, L7))))))),
                    F64Mul(s4, F64Add(L2, F64Mul(s4, F64Add(L4, F64Mul(s4, L6)))))))

\*   s4 := s2 * s2
logFromS2(f, k, s, s2) == logFromS4(f, k, s, s2, F64Mul(s2, s2))

\*   s2 := s * s
logFromS(f, k, s) == logFromS2(f, k, s, F64Mul(s, s))

\*   s := f / (2 + f)
logFromF(f, k) == logFromS(f, k, F64Div(f, F64Add(F64Two, f)))

\*   f1, ki := Frexp(x); if f1 < Sqrt2/2 { f1 *= 2; ki-- }; f := f1 - 1; k := float64(ki)
logReduce(f1, ki, low) ==
    logFromF(F64Sub(IF low THEN [f1 EXCEPT !.exp = @ + 1] ELSE f1, F64One),
             F64Quotient(IF low THEN ki - 1 ELSE ki, 1))

\* math.log(x) for a finite x > 0 (the special cases of 0, negative, infinite
\* and NaN arguments are not reached from Log2 of a rank).
log(x) == logReduce(Frexp(x).frac, Frexp(x).exp, F64Less(Frexp(x).frac, Sqrt2Over2))

\* math.Log2(x) for a finite x > 0: exact on a power of two.
Log2(x) ==
    LET fr == Frexp(x)
    IN IF fr.frac = F64Half
       THEN F64Quotient(fr.exp - 1, 1)
       ELSE F64Add(F64Mul(log(fr.frac), InvLn2), F64Quotient(fr.exp, 1))

\* math.Pow(2, y) for an integer y from -14 to 30: the power of two, exactly.
Pow2(y) == IF y >= 0 THEN F64Quotient(2 ^ y, 1) ELSE F64Quotient(1, 2 ^ (-y))

\* ------------------------------------------------------------------------
\* Results of a call

Panic(msg) == [kind |-> "panic", msg |-> msg]
Returned(v) == [kind |-> "value", val |-> v]
NoValue == [kind |-> "none"]

LengthMismatch == "Prediction/Label length mismatch"
IndexOutOfRange == "runtime error: index out of range"
KOutOfBounds == "index k is out of bounds"

\* ------------------------------------------------------------------------
\* Slices

\* A reversal that leaves the slice as it was.
reverseForgotten(s) == s

\* floats.Reverse / reverse: the sequence read backwards.
reverse(s) == SubSeq([slot \in 1..Len(s) |-> s[Len(s) + 1 - slot]], 1, Len(s))

\* A count of the labels that are not 0, negative ones included.
CountNonZero(s) == Cardinality({i \in 1..Len(s) : s[i] # 0})

\* floats.Count(x > 0, labels)
CountPositive(s) == Cardinality({i \in 1..Len(s) : s[i] > 0})

\* floats.Argsort(dst, inds): sort.Sort on the pair d = [dst, inds], which
\* compares and swaps by Go index.  sort.Sort makes no promise about the order
\* of equal elements.
Less(d, i, j) == d.dst[i + 1] < d.dst[j + 1]

Swap(d, i, j) ==
    [dst |-> [d.dst EXCEPT ![i + 1] = d.dst[j + 1], ![j + 1] = d.dst[i + 1]],
     inds |-> [d.inds EXCEPT ![i + 1] = d.inds[j + 1], ![j + 1] = d.inds[i + 1]]]

\* for j := i; j > a && data.Less(j, j-1); j-- { data.Swap(j, j-1) }
RECURSIVE insertDown(_, _, _)
insertDown(d, j, a) ==
    IF j > a /\ Less(d, j, j - 1)
    THEN insertDown(Swap(d, j, j - 1), j - 1, a)
    ELSE d

\* insertionSort(data, a, b), from Go index i on; it keeps equal elements in
\* their order.
RECURSIVE insertionSort(_, _, _, _)
insertionSort(d, a, b, i) ==
    IF i >= b THEN d ELSE insertionSort(insertDown(d, i, a), a, b, i + 1)

order2(d, x, y, swaps) ==
    IF Less(d, y, x)
    THEN [x |-> y, y |-> x, swaps |-> swaps + 1]
    ELSE [x |-> x, y |-> y, swaps |-> swaps]

median(d, x, y, z, swaps) ==
    LET p == order2(d, x, y, swaps)
        q == order2(d, p.y, z, p.swaps)
        r == order2(d, p.x, q.x, q.swaps)
    IN [pivot |-> r.y, swaps |-> r.swaps]

\* choosePivot(data, a, b) for fewer than 50 elements: the median of the
\* elements at the three quarter points, and the number of swaps it took to
\* order them (0 is the hint that the range may already be sorted).
choosePivot(d, a, b) ==
    LET l == b - a
        i == a + (l \div 4) * 1
        j == a + (l \div 4) * 2
        k == a + (l \div 4) * 3
    IN IF l >= 8 THEN median(d, i, j, k, 0) ELSE [pivot |-> j, swaps |-> 0]

\* partialInsertionSort(data, a, b) for fewer than 50 elements: true when the
\* range is already in order; otherwise false, and nothing was moved.
partialInsertionSort(d, a, b) == \A i \in (a + 1)..(b - 1) : ~Less(d, i, i - 1)

RECURSIVE scanUp(_, _, _, _)
scanUp(d, a, i, j) == IF i <= j /\ Less(d, i, a) THEN scanUp(d, a, i + 1, j) ELSE i

RECURSIVE scanDown(_, _, _, _)
scanDown(d, a, i, j) == IF i <= j /\ ~Less(d, j, a) THEN scanDown(d, a, i, j - 1) ELSE j

\* The loop of partition, the pivot being at Go index a: elements below the
\* pivot are gathered on the left by swapping across the range.
RECURSIVE partitionLoop(_, _, _, _)
partitionLoop(d, a, i, j) ==
    LET i2 == scanUp(d, a, i, j)
        j2 == scanDown(d, a, i2, j)
    IN IF i2 > j2
       THEN [d |-> d, j |-> j2]
       ELSE partitionLoop(Swap(d, i2, j2), a, i2 + 1, j2 - 1)

\* partition(data, a, b, pivot): the pivot ends at Go index mid, elements below
\* it before mid, the others after.
partition(d, a, b, pivot) ==
    LET r == partitionLoop(Swap(d, a, pivot), a, a + 1, b - 1)
    IN [d |-> Swap(r.d, r.j, a), mid |-> r.j]

\* pdqsort(data, a, b, limit), the sort.Sort of Go 1.19 and later: insertion
\* sort up to 12 elements; beyond, one partition around the chosen pivot and
\* the same again on both sides.  The branches for a badly balanced or repeated
\* partition (breakPatterns, partitionEqual, heapSort) act only on a range of
\* more than 12 elements left by an earlier partition: none is reached for up
\* to 13 elements, the longest slice sorted here.
RECURSIVE pdqsort(_, _, _)
pdqsort(d, a, b) ==
    IF b - a <= 12
    THEN insertionSort(d, a, b, a + 1)
    ELSE LET cp == choosePivot(d, a, b)
         IN IF cp.swaps = 0 /\ partialInsertionSort(d, a, b)
            THEN d
            ELSE LET pt == partition(d, a, b, cp.pivot)
                 IN pdqsort(pdqsort(pt.d, a, pt.mid), pt.mid + 1, b)

Argsort(dst) ==
    pdqsort([dst |-> dst,
             inds |-> SubSeq([slot \in 1..Len(dst) |-> slot - 1], 1, Len(dst))],
            0, Len(dst))

\* ------------------------------------------------------------------------
\* PrecisionRecallCurve

\* The loop with a hit counted for every label that is not 0.
RECURSIVE walkCountingNonZero(_, _, _, _, _, _, _, _)
walkCountingNonZero(labels_, ind, positives, i, hits, k, recall, precision) ==
    IF i < 0
    THEN [k |-> k, recall |-> recall, precision |-> precision]
    ELSE LET h == IF labels_[ind[i + 1] + 1] # 0 THEN hits + 1 ELSE hits
             r == [recall EXCEPT ![k + 1] = Rat(h, positives)]
             p == [precision EXCEPT ![k + 1] = Rat(h, k + 1)]
         IN IF r[k + 1] = One
            THEN [k |-> k, recall |-> r, precision |-> p]
            ELSE walkCountingNonZero(labels_, ind, positives, i - 1, h, k + 1, r, p)

\* The loop of NewPrecisionRecallCurve, from Go index i down to 0, writing
\* recall[k] and precision[k]; it stops (break) when recall[k] == 1.
RECURSIVE walk(_, _, _, _, _, _, _, _)
walk(labels_, ind, positives, i, hits, k, recall, precision) ==
    IF i < 0
    THEN [k |-> k, recall |-> recall, precision |-> precision]
    ELSE LET h == IF labels_[ind[i + 1] + 1] > 0 THEN hits + 1 ELSE hits
             r == [recall EXCEPT ![k + 1] = Rat(h, positives)]
             p == [precision EXCEPT ![k + 1] = Rat(h, k + 1)]
         IN IF r[k + 1] = One
            THEN [k |-> k, recall |-> r, precision |-> p]
            ELSE walk(labels_, ind, positives, i - 1, h, k + 1, r, p)

\* thresholds[len(thresholds)-k:], one element short.
thresholdsFromOffByOne(thresholds, k) ==
    SubSeq(thresholds, Len(thresholds) - k + 1, Len(thresholds))

\* thresholds[len(thresholds)-k-1:]
thresholdsFrom(thresholds, k) ==
    SubSeq(thresholds, Len(thresholds) - k, Len(thresholds))

NewPrecisionRecallCurve(predictions_, labels_) ==
    IF Len(predictions_) # Len(labels_)
    THEN Panic(LengthMismatch)
    ELSE LET n == Len(predictions_)
             positives == CountPositive(labels_)
             zeros == SubSeq([slot \in 1..n |-> Zero], 1, n)
         IN IF positives = 0
            THEN [kind |-> "curve",
                  Precision |-> <<One>>,
                  Recall |-> <<Zero>>,
                  Thresholds |-> <<>>,
                  positives |-> positives]
            ELSE LET sorted == Argsort(predictions_)
                     w == walk(labels_, sorted.inds, positives, n - 1, 0, 0, zeros, zeros)
                 IN IF w.k + 1 > n
                    THEN Panic("runtime error: slice bounds out of range")
                    ELSE [kind |-> "curve",
                          Precision |-> Append(reverse(SubSeq(w.precision, 1, w.k + 1)), One),
                          Recall |-> Append(reverse(SubSeq(w.recall, 1, w.k + 1)), Zero),
                          Thresholds |-> thresholdsFrom(sorted.dst, w.k),
                          positives |-> positives]

\* The loop of AveragePrecision from Go index i on, sum being the float64 sum
\* so far: sum += (c.Recall[i+1] - c.Recall[i]) * c.Precision[i].  The Go
\* compiler may fuse the multiplication and the addition into one operation
\* that rounds once (it does on arm64, ppc64, s390x and riscv64): fused says
\* which way the build went.
RECURSIVE apSum(_, _, _, _)
apSum(c, fused, i, sum) ==
    IF i >= Len(c.Precision) - 1
    THEN sum
    ELSE LET step == F64Sub(F64(c.Recall[i + 2]), F64(c.Recall[i + 1]))
             height == F64(c.Precision[i + 1])
         IN apSum(c, fused, i + 1,
                  IF fused
                  THEN F64MulAdd(step, height, sum)
                  ELSE F64Add(sum, F64Mul(step, height)))

AveragePrecision(c, fused) == Returned(F64Neg(apSum(c, fused, 0, F64Zero)))

\* Precision indexed from the front, Precision[k].
PrecisionAtFromFront(c, k) ==
    IF k < 0 \/ k >= Len(c.Precision)
    THEN Panic(IndexOutOfRange)
    ELSE Returned(c.Precision[k + 1])

PrecisionAt(c, k) ==
    LET i == Len(c.Precision) - 1 - k
    IN IF i < 0 \/ i >= Len(c.Precision)
       THEN Panic(IndexOutOfRange)
       ELSE Returned(c.Precision[i + 1])

\* Precision indexed by the number of positives from the front.
RPrecisionFromFront(c) ==
    IF c.positives >= Len(c.Precision)
    THEN Panic(IndexOutOfRange)
    ELSE Returned(c.Precision[c.positives + 1])

RPrecision(c) ==
    LET i == Len(c.Precision) - 1 - c.positives
    IN IF i < 0 \/ i >= Len(c.Precision)
       THEN Panic(IndexOutOfRange)
       ELSE Returned(c.Precision[i + 1])

\* The loop over inds: max starts at 0 and takes every Precision[v] above it,
\* for v from Go index i on with Recall[v] >= r (floats.Find with k = -1 finds
\* them all and returns no error).
RECURSIVE maxPrecisionFrom(_, _, _, _)
maxPrecisionFrom(c, r, i, max) ==
    IF i >= Len(c.Recall)
    THEN max
    ELSE IF RatLe(r, c.Recall[i + 1]) /\ RatLt(max, c.Precision[i + 1])
         THEN maxPrecisionFrom(c, r, i + 1, c.Precision[i + 1])
         ELSE maxPrecisionFrom(c, r, i + 1, max)

\* The maximum over the points whose recall is strictly above r.
InterpolatedPrecisionAtStrictlyAbove(c, r) ==
    Returned(maxPrecisionFrom([c EXCEPT !.Recall =
                 [i \in 1..Len(c.Recall) |-> IF c.Recall[i] = r THEN Rat(-1, 1) ELSE c.Recall[i]]],
             r, 0, Zero))

InterpolatedPrecisionAt(c, r) == Returned(maxPrecisionFrom(c, r, 0, Zero))

\* ------------------------------------------------------------------------
\* RankingEvaluation

NewRankingEvaluation(predictions_, labels_) ==
    IF Len(predictions_) # Len(labels_)
    THEN Panic(LengthMismatch)
    ELSE [kind |-> "ranking",
          Relevancies |-> labels_,
          PredictedRankInd |-> reverse(Argsort(predictions_).inds),
          PerfectRankInd |-> reverse(Argsort(labels_).inds)]

\* sum over Go index i in [from, k) of Relevancies[PredictedRankInd[i]].
RECURSIVE cgSum(_, _, _)
cgSum(r, k, from) ==
    IF from >= k
    THEN 0
    ELSE r.Relevancies[r.PredictedRankInd[from + 1] + 1] + cgSum(r, k, from + 1)

\* The gain with k brought back into 1..len(Relevancies) instead of a panic.
CumulativeGainClamped(r, k) ==
    LET n == Len(r.Relevancies)
        kk == IF k > n THEN n ELSE IF k < 1 THEN (IF n >= 1 THEN 1 ELSE 0) ELSE k
    IN Returned(Rat(cgSum(r, kk, 0), 1))

\* The gain of the first k items as given, whatever their scores.
CumulativeGainOfFirstK(r, k) ==
    IF k < 1 \/ k > Len(r.Relevancies)
    THEN Panic(KOutOfBounds)
    ELSE Returned(Rat(cgSum([r EXCEPT !.PredictedRankInd =
                                 SubSeq([slot \in 1..k |-> slot - 1], 1, k)], k, 0), 1))

CumulativeGain(r, k) ==
    IF k < 1 \/ k > Len(r.Relevancies)
    THEN Panic(KOutOfBounds)
    ELSE Returned(Rat(cgSum(r, k, 0), 1))

TraditionalRelevancy(r) == F64Quotient(r, 1)

\* math.Pow(2, r) - 1
EmphasisedRelevancy(r) == F64Sub(Pow2(r), F64One)

RelevancyFunctions == {"TraditionalRelevancy", "EmphasisedRelevancy"}

ApplyRelevancy(rel, r) ==
    IF rel = "TraditionalRelevancy" THEN TraditionalRelevancy(r) ELSE EmphasisedRelevancy(r)

\* rel(v) / math.Log2(float64(i+2)), the gain of relevancy v at Go index i.
discountedGain(rel, v, i) == F64Div(ApplyRelevancy(rel, v), Log2(F64Quotient(i + 2, 1)))

\* The labels of the inputs, from the lowest to the highest.
LowestLabel == CHOOSE v \in LabelValues : \A w \in LabelValues : v <= w

HighestLabel == CHOOSE v \in LabelValues : \A w \in LabelValues : w <= v

\* The gains of those labels at the ranks of the inputs, computed once:
\* gainsComputed[rel][v - LowestLabel + 1][i + 1] is discountedGain(rel, v, i).
gainsComputed ==
    LET width == HighestLabel - LowestLabel + 1
    IN [rel \in RelevancyFunctions |->
           SubSeq([a \in 1..width |->
                      SubSeq([b \in 1..LongestInput |->
                                 discountedGain(rel, a - 1 + LowestLabel, b - 1)],
                             1, LongestInput)],
                  1, width)]

\* discountedGain(rel, v, i), looked up where it was computed already.
discountedGainOnce(rel, v, i) ==
    IF v \in LowestLabel..HighestLabel /\ i < LongestInput
    THEN gainsComputed[rel][v - LowestLabel + 1][i + 1]
    ELSE discountedGain(rel, v, i)

\* The loop of discountedCumulativeGain from Go index i on, sum being the
\* float64 sum so far: sum += rel(r.Relevancies[v]) / math.Log2(float64(i+2)).
RECURSIVE dcgSum(_, _, _, _, _, _)
dcgSum(r, k, rankings, rel, i, sum) ==
    IF i >= k
    THEN sum
    ELSE dcgSum(r, k, rankings, rel, i + 1,
                F64Add(sum, discountedGainOnce(rel, r.Relevancies[rankings[i + 1] + 1], i)))

discountedCumulativeGain(r, k, rankings, rel) == dcgSum(r, k, rankings, rel, 0, F64Zero)

DiscountedCumulativeGain(r, k, rel) ==
    IF k < 1 \/ k > Len(r.Relevancies)
    THEN Panic(KOutOfBounds)
    ELSE Returned(discountedCumulativeGain(r, k, r.PredictedRankInd, rel))

\* floats.Max of a slice that is not empty.
Max(s) == CHOOSE x \in {s[i] : i \in 1..Len(s)} : \A i \in 1..Len(s) : s[i] <= x

\* The ratio with no special case for relevancies that are all 0.
NormalisedDiscountedCumulativeGainUnguarded(r, k, rel) ==
    IF k < 1 \/ k > Len(r.Relevancies)
    THEN Panic(KOutOfBounds)
    ELSE Returned(F64Div(discountedCumulativeGain(r, k, r.PredictedRankInd, rel),
                         discountedCumulativeGain(r, k, r.PerfectRankInd, rel)))

\* The ratio upside down: the perfect ranking's gain over the predicted one's.
NormalisedDiscountedCumulativeGainInverted(r, k, rel) ==
    IF k < 1 \/ k > Len(r.Relevancies)
    THEN Panic(KOutOfBounds)
    ELSE IF Max(r.Relevancies) = 0
         THEN Returned(F64One)
         ELSE Returned(F64Div(discountedCumulativeGain(r, k, r.PerfectRankInd, rel),
                              discountedCumulativeGain(r, k, r.PredictedRankInd, rel)))

NormalisedDiscountedCumulativeGain(r, k, rel) ==
    IF k < 1 \/ k > Len(r.Relevancies)
    THEN Panic(KOutOfBounds)
    ELSE IF Max(r.Relevancies) = 0
         THEN Returned(F64One)
         ELSE Returned(F64Div(discountedCumulativeGain(r, k, r.PredictedRankInd, rel),
                              discountedCumulativeGain(r, k, r.PerfectRankInd, rel)))

\* ------------------------------------------------------------------------
\* ConfusionMatrix

EmptyMatrix ==
    [kind |-> "matrix", Observations |-> 0, Pos |-> 0, Neg |-> 0,
     TruePos |-> 0, TrueNeg |-> 0, FalsePos |-> 0, FalseNeg |-> 0]

\* The loop body with the true negatives left uncounted.
tallyOneWithoutTrueNeg(m, prediction, v, threshold) ==
    LET y == IF prediction >= threshold THEN 1 ELSE 0
        seen == [m EXCEPT !.Observations = @ + 1]
    IN IF v = 1
       THEN IF y = 1
            THEN [seen EXCEPT !.Pos = @ + 1, !.TruePos = @ + 1]
            ELSE [seen EXCEPT !.Pos = @ + 1, !.FalseNeg = @ + 1]
       ELSE IF y = 1
            THEN [seen EXCEPT !.Neg = @ + 1, !.FalsePos = @ + 1]
            ELSE [seen EXCEPT !.Neg = @ + 1]

\* The loop body with every label above 0 taken as an actual positive.
tallyOneLabelAboveZero(m, prediction, v, threshold) ==
    LET y == IF prediction >= threshold THEN 1 ELSE 0
        seen == [m EXCEPT !.Observations = @ + 1]
    IN IF v > 0
       THEN IF y = 1
            THEN [seen EXCEPT !.Pos = @ + 1, !.TruePos = @ + 1]
            ELSE [seen EXCEPT !.Pos = @ + 1, !.FalseNeg = @ + 1]
       ELSE IF y = 1
            THEN [seen EXCEPT !.Neg = @ + 1, !.FalsePos = @ + 1]
            ELSE [seen EXCEPT !.Neg = @ + 1, !.TrueNeg = @ + 1]

\* One pass of the loop body of NewConfusionMatrix, for Go index i.
tallyOne(m, prediction, v, threshold) ==
    LET y == IF prediction >= threshold THEN 1 ELSE 0
        seen == [m EXCEPT !.Observations = @ + 1]
    IN IF v = 1
       THEN IF y = 1
            THEN [seen EXCEPT !.Pos = @ + 1, !.TruePos = @ + 1]
            ELSE [seen EXCEPT !.Pos = @ + 1, !.FalseNeg = @ + 1]
       ELSE IF y = 1
            THEN [seen EXCEPT !.Neg = @ + 1, !.FalsePos = @ + 1]
            ELSE [seen EXCEPT !.Neg = @ + 1, !.TrueNeg = @ + 1]

\* for i, v := range labels: predictions[i] is read with no length check.
RECURSIVE tally(_, _, _, _, _)
tally(predictions_, labels_, threshold, i, m) ==
    IF i >= Len(labels_)
    THEN m
    ELSE IF i >= Len(predictions_)
         THEN Panic(IndexOutOfRange)
         ELSE tally(predictions_, labels_, threshold, i + 1,
                    tallyOne(m, predictions_[i + 1], labels_[i + 1], threshold))

NewConfusionMatrix(predictions_, labels_, threshold) ==
    tally(predictions_, labels_, threshold, 0, EmptyMatrix)

ConfusionMatrixPrecision(c) == Returned(Rat(c.TruePos, c.TruePos + c.FalsePos))

ConfusionMatrixRecall(c) == Returned(Rat(c.TruePos, c.TruePos + c.FalseNeg))

ConfusionMatrixAccuracy(c) == Returned(Rat(c.TrueNeg + c.TruePos, c.Observations))

\* ------------------------------------------------------------------------
\* The inputs

SeqsUpTo(S, n) == UNION {[1..m -> S] : m \in 0..n}

Init ==
    /\ \/ /\ predictions \in SeqsUpTo(ScoreValues, MaxLen)
          /\ labels \in SeqsUpTo(LabelValues, MaxLen)
       \/ \E d \in Datasets \cup LongDatasets \cup PositiveRuns : predictions = d.probs /\ labels = d.labels
    /\ pc = "start"
    /\ made = [op |-> "none"]
    /\ obj = NoValue
    /\ call = [op |-> "none"]
    /\ ret = NoValue

\* A constructor either panics or hands back its object.
Construct(op, result) ==
    /\ pc = "start"
    /\ made' = op
    /\ IF result.kind = "panic"
       THEN pc' = "panicked" /\ ret' = result /\ obj' = obj
       ELSE pc' = "built" /\ obj' = result /\ ret' = ret
    /\ UNCHANGED <<predictions, labels, call>>

\* A method of the object built either panics or returns a value.
Invoke(kind, op, result) ==
    /\ pc = "built"
    /\ obj.kind = kind
    /\ call' = op
    /\ ret' = result
    /\ pc' = IF result.kind = "panic" THEN "panicked" ELSE "returned"
    /\ UNCHANGED <<predictions, labels, made, obj>>

CallNewPrecisionRecallCurve ==
    Construct([op |-> "NewPrecisionRecallCurve"],
              NewPrecisionRecallCurve(predictions, labels))

CallAveragePrecision ==
    /\ pc = "built" /\ obj.kind = "curve"
    /\ \E fused \in BOOLEAN :
          Invoke("curve", [op |-> "AveragePrecision"], AveragePrecision(obj, fused))

CallPrecisionAt ==
    /\ pc = "built" /\ obj.kind = "curve"
    /\ \E k \in -1..(Len(predictions) + 1) :
          Invoke("curve", [op |-> "PrecisionAt", k |-> k], PrecisionAt(obj, k))

CallRPrecision ==
    /\ pc = "built" /\ obj.kind = "curve"
    /\ Invoke("curve", [op |-> "RPrecision"], RPrecision(obj))

CallInterpolatedPrecisionAt ==
    /\ pc = "built" /\ obj.kind = "curve"
    /\ \E t \in RecallLevels :
          Invoke("curve", [op |-> "InterpolatedPrecisionAt", r |-> Rat(t, 10)],
                 InterpolatedPrecisionAt(obj, Rat(t, 10)))

CallNewRankingEvaluation ==
    Construct([op |-> "NewRankingEvaluation"],
              NewRankingEvaluation(predictions, labels))

CallCumulativeGain ==
    /\ pc = "built" /\ obj.kind = "ranking"
    /\ \E k \in -1..(Len(labels) + 1) :
          Invoke("ranking", [op |-> "CumulativeGain", k |-> k], CumulativeGain(obj, k))

CallDiscountedCumulativeGain ==
    /\ pc = "built" /\ obj.kind = "ranking"
    /\ \E k \in -1..(Len(labels) + 1), rel \in RelevancyFunctions :
          Invoke("ranking",
                 [op |-> "DiscountedCumulativeGain", k |-> k, rel |-> rel],
                 DiscountedCumulativeGain(obj, k, rel))

CallNormalisedDiscountedCumulativeGain ==
    /\ pc = "built" /\ obj.kind = "ranking"
    /\ \E k \in -1..(Len(labels) + 1), rel \in RelevancyFunctions :
          Invoke("ranking",
                 [op |-> "NormalisedDiscountedCumulativeGain", k |-> k, rel |-> rel],
                 NormalisedDiscountedCumulativeGain(obj, k, rel))

CallNewConfusionMatrix ==
    \E threshold \in ThresholdValues :
        Construct([op |-> "NewConfusionMatrix", threshold |-> threshold],
                  NewConfusionMatrix(predictions, labels, threshold))

CallConfusionMatrixPrecision ==
    /\ pc = "built" /\ obj.kind = "matrix"
    /\ Invoke("matrix", [op |-> "Precision"], ConfusionMatrixPrecision(obj))

CallConfusionMatrixRecall ==
    /\ pc = "built" /\ obj.kind = "matrix"
    /\ Invoke("matrix", [op |-> "Recall"], ConfusionMatrixRecall(obj))

CallConfusionMatrixAccuracy ==
    /\ pc = "built" /\ obj.kind = "matrix"
    /\ Invoke("matrix", [op |-> "Accuracy"], ConfusionMatrixAccuracy(obj))

Next ==
    \/ CallNewPrecisionRecallCurve
    \/ CallAveragePrecision
    \/ CallPrecisionAt
    \/ CallRPrecision
    \/ CallInterpolatedPrecisionAt
    \/ CallNewRankingEvaluation
    \/ CallCumulativeGain
    \/ CallDiscountedCumulativeGain
    \/ CallNormalisedDiscountedCumulativeGain
    \/ CallNewConfusionMatrix
    \/ CallConfusionMatrixPrecision
    \/ CallConfusionMatrixRecall
    \/ CallConfusionMatrixAccuracy

Spec == Init /\ [][Next]_vars

\* ------------------------------------------------------------------------
\* What the claims speak of

\* NewPrecisionRecallCurve was called with slices of equal length.
CurveRequested ==
    /\ made.op = "NewPrecisionRecallCurve"
    /\ Len(predictions) = Len(labels)

\* The items (Go indices) from the lowest-ranked to the highest-ranked, as the
\* argsort of the scores leaves them; C17 is about how it orders equal scores.
AscendingOrder == Argsort(predictions).inds

\* The rank of item i (1-based), 1 for the top item.
RankOf(i) ==
    Len(predictions) + 1 - (CHOOSE p \in 1..Len(predictions) : AscendingOrder[p] = i - 1)

\* Item i (1-based) is ranked above item j.
RankedAbove(i, j) == RankOf(i) < RankOf(j)

\* The number of label > 0 items among the last k of order.
HitsAmongLast(order, k) ==
    Cardinality({p \in (Len(labels) - k + 1)..Len(labels) : labels[order[p] + 1] > 0})

\* The number of label > 0 items among the k highest-ranked items.
HitsInTop(k) == HitsAmongLast(AscendingOrder, k)

Positives == Cardinality({i \in 1..Len(labels) : labels[i] > 0})

\* ------------------------------------------------------------------------
\* C1

\* C1 as stated: in every curve returned by NewPrecisionRecallCurve, Recall is
\* non-decreasing from index 0 to the last index.
C1_RecallNonDecreasing ==
    CurveRequested =>
        /\ obj.kind = "curve"
        /\ \A i \in 1..(Len(obj.Recall) - 1) : RatLe(obj.Recall[i], obj.Recall[i + 1])

\* C1 amended: in every curve returned by NewPrecisionRecallCurve, Recall is
\* non-increasing from index 0 to the last index (Recall[i] >= Recall[i+1]).
C1_RecallNonIncreasing ==
    CurveRequested =>
        /\ obj.kind = "curve"
        /\ \A i \in 1..(Len(obj.Recall) - 1) : RatLe(obj.Recall[i + 1], obj.Recall[i])

\* A curve of at least three points before the anchor whose recall falls twice.
C1_Witness ==
    /\ CurveRequested
    /\ obj.kind = "curve"
    /\ Len(obj.Recall) >= 4
    /\ RatLt(obj.Recall[2], obj.Recall[1])
    /\ RatLt(obj.Recall[3], obj.Recall[2])

\* ------------------------------------------------------------------------
\* C2

\* C2: for equal-length inputs the curve has len(Precision) = len(Recall) =
\* len(Thresholds) + 1 and its last point is the anchor, Precision 1.0 and
\* Recall 0.0.
C2_LengthsAndAnchor ==
    CurveRequested =>
        /\ obj.kind = "curve"
        /\ Len(obj.Precision) = Len(obj.Recall)
        /\ Len(obj.Precision) = Len(obj.Thresholds) + 1
        /\ obj.Precision[Len(obj.Precision)] = One
        /\ obj.Recall[Len(obj.Recall)] = Zero

\* A curve with positives that stopped before the last item.
C2_Witness ==
    /\ CurveRequested
    /\ obj.kind = "curve"
    /\ obj.positives > 0
    /\ Len(obj.Thresholds) >= 2
    /\ Len(obj.Thresholds) < Len(predictions)

\* ------------------------------------------------------------------------
\* C3

\* C3 as documented on PrecisionRecallCurve: Precision[0] is 1 and Recall[0]
\* is 0 for every curve built by NewPrecisionRecallCurve.
C3_AnchorAtIndexZero ==
    CurveRequested =>
        /\ obj.kind = "curve"
        /\ obj.Precision[1] = One
        /\ obj.Recall[1] = Zero

\* ------------------------------------------------------------------------
\* C4

\* Every label > 0 item is ranked above every other item.
AllPositivesRankedFirst ==
    \A i, j \in 1..Len(labels) :
        (labels[i] > 0 /\ labels[j] <= 0) => RankedAbove(i, j)

AveragePrecisionCalled == CurveRequested /\ call.op = "AveragePrecision"

\* C4 as stated: for every curve built from equal-length inputs,
\* AveragePrecision() is 1.0 if and only if all positive items are ranked
\* above all negative items.
C4_OneIffPositivesFirst ==
    AveragePrecisionCalled =>
        /\ ret.kind = "value"
        /\ (ret.val = F64One) <=> AllPositivesRankedFirst

\* Seven positive items, all ranked above the one negative item, and
\* AveragePrecision() returned a value below 1.0.
C4_PerfectRankingBelowOne ==
    /\ AveragePrecisionCalled
    /\ Positives = 7
    /\ Positives < Len(labels)
    /\ AllPositivesRankedFirst
    /\ ret.kind = "value"
    /\ F64Less(ret.val, F64One)

\* ------------------------------------------------------------------------
\* C5

\* C5 as stated: each constructor called with score and label sequences of
\* different lengths fails and returns no object, whichever is the longer.
C5_MismatchedLengthsFail ==
    (made.op # "none" /\ Len(predictions) # Len(labels)) =>
        /\ pc = "panicked"
        /\ obj.kind = "none"
        /\ ret.kind = "panic"

\* ------------------------------------------------------------------------
\* C6

C6_Scenario ==
    /\ predictions = <<10, 90, 60, 30>>
    /\ labels = <<0, 1, 1, 0>>
    /\ made = [op |-> "NewConfusionMatrix", threshold |-> 50]

\* C6 as stated: scores=[0.1,0.9,0.6,0.3], labels=[0,1,1,0], threshold 0.5 give
\* TruePos=1, FalsePos=0, TrueNeg=2, FalseNeg=1, Precision()=1.0, Recall()=0.5
\* and Accuracy()=0.75.
C6_ScenarioAsStated ==
    C6_Scenario =>
        /\ obj.kind = "matrix"
        /\ obj.TruePos = 1 /\ obj.FalsePos = 0 /\ obj.TrueNeg = 2 /\ obj.FalseNeg = 1
        /\ call.op = "Precision" => ret = Returned(One)
        /\ call.op = "Recall" => ret = Returned(Rat(1, 2))
        /\ call.op = "Accuracy" => ret = Returned(Rat(3, 4))

\* C6 amended: scores=[0.1,0.9,0.6,0.3], labels=[0,1,1,0], threshold 0.5 give
\* TruePos=2, FalsePos=0, TrueNeg=2, FalseNeg=0 (0.9 and 0.6 are both >= 0.5),
\* Precision()=1.0, Recall()=1.0 and Accuracy()=1.0.
C6_ScenarioAsComputed ==
    C6_Scenario =>
        /\ obj.kind = "matrix"
        /\ obj.Observations = 4 /\ obj.Pos = 2 /\ obj.Neg = 2
        /\ obj.TruePos = 2 /\ obj.FalsePos = 0 /\ obj.TrueNeg = 2 /\ obj.FalseNeg = 0
        /\ call.op = "Precision" => ret = Returned(One)
        /\ call.op = "Recall" => ret = Returned(One)
        /\ call.op = "Accuracy" => ret = Returned(One)

\* The scenario's matrix was built and Accuracy() has returned.
C6_Witness == C6_Scenario /\ call.op = "Accuracy" /\ pc = "returned"

\* ------------------------------------------------------------------------
\* C7

\* NormalisedDiscountedCumulativeGain(n, rel) was called, n = len(Relevancies).
NDCGCalledAtN ==
    /\ obj.kind = "ranking"
    /\ call.op = "NormalisedDiscountedCumulativeGain"
    /\ call.k = Len(obj.Relevancies)

AllRelevanciesZero == \A i \in 1..Len(obj.Relevancies) : obj.Relevancies[i] = 0

\* The discounted gain of the perfect ranking, the divisor of the ratio.
IdealGain == discountedCumulativeGain(obj, call.k, obj.PerfectRankInd, call.rel)

\* C7 as stated: NormalisedDiscountedCumulativeGain(n, rel) is exactly 1.0
\* whenever PredictedRankInd equals PerfectRankInd, and whenever all
\* relevancies are 0.
C7_OneWhenPerfectOrAllZero ==
    (NDCGCalledAtN /\ (obj.PredictedRankInd = obj.PerfectRankInd \/ AllRelevanciesZero)) =>
        ret = Returned(F64One)

\* C7 amended: for n >= 1, NormalisedDiscountedCumulativeGain(n, rel) is exactly
\* 1.0 whenever all relevancies are 0, and whenever PredictedRankInd equals
\* PerfectRankInd and the discounted gain of the perfect ranking is not 0.
C7_OneWhenPerfectAndIdealGainNotZero ==
    (/\ NDCGCalledAtN
     /\ Len(obj.Relevancies) >= 1
     /\ \/ AllRelevanciesZero
        \/ obj.PredictedRankInd = obj.PerfectRankInd /\ IdealGain # F64Zero) =>
        ret = Returned(F64One)

\* The ratio was computed for a perfect prediction of three graded items.
C7_Witness ==
    /\ NDCGCalledAtN
    /\ Len(obj.Relevancies) >= 3
    /\ obj.PredictedRankInd = obj.PerfectRankInd
    /\ Max(obj.Relevancies) # 0
    /\ \E i \in 1..Len(obj.Relevancies) : obj.Relevancies[i] # obj.Relevancies[1]
    /\ ret = Returned(F64One)

\* ------------------------------------------------------------------------
\* C8

PrecisionAtCalled ==
    /\ CurveRequested
    /\ obj.kind = "curve"
    /\ call.op = "PrecisionAt"

\* The precision at cut-off k: the proportion of the k highest-ranked items
\* whose label is > 0; 1 at cut-off 0.
PrecisionAtCutOff(k) == IF k = 0 THEN One ELSE Rat(HitsInTop(k), k)

\* C8 as stated: for a curve built from n items PrecisionAt(k) returns the
\* precision at cut-off k for every k from 1 to n, and 1.0 for k = 0.
C8_PrecisionAtEveryCutOff ==
    (PrecisionAtCalled /\ call.k \in 0..Len(predictions)) =>
        ret = Returned(PrecisionAtCutOff(call.k))

\* C8 amended: with m = len(Precision) - 1, the rank at which the last positive
\* is found (0 when there is none), PrecisionAt(k) returns the precision at
\* cut-off k for every k from 1 to m and 1.0 for k = 0; for m < k <= n it
\* panics on an index out of range.
C8_PrecisionAtCutOffUpToStop ==
    PrecisionAtCalled =>
        /\ call.k \in 0..(Len(obj.Precision) - 1) =>
               ret = Returned(PrecisionAtCutOff(call.k))
        /\ call.k > Len(obj.Precision) - 1 => ret = Panic(IndexOutOfRange)

\* PrecisionAt(k) returned a proper fraction for a cut-off k >= 2.
C8_Witness ==
    /\ PrecisionAtCalled
    /\ call.k >= 2
    /\ ret.kind = "value"
    /\ RatLt(Zero, ret.val)
    /\ RatLt(ret.val, One)

\* ------------------------------------------------------------------------
\* C9

\* The first rank at which every positive has been seen.
StopRankAlong(order) ==
    CHOOSE m \in 1..Len(labels) :
        /\ HitsAmongLast(order, m) = Positives
        /\ \A r \in 1..(m - 1) : HitsAmongLast(order, r) < Positives

StopRank == StopRankAlong(AscendingOrder)

\* The r-th highest score.
ScoreAtRank(r) == predictions[AscendingOrder[Len(predictions) + 1 - r] + 1]

\* C9: with at least one label > 0 the curve has exactly m points before the
\* anchor, m the first rank at which every positive has been seen; Recall[0]
\* is 1 and, for j in 0..m-1 and h the number of label > 0 items among the m-j
\* highest-ranked items, Recall[j] = h/positives, Precision[j] = h/(m-j) and
\* Thresholds[j] is the (m-j)-th highest score.
C9_CurveStopsAtLastPositive ==
    (CurveRequested /\ Positives > 0) =>
        LET order == AscendingOrder
            m == StopRankAlong(order)
        IN /\ obj.kind = "curve"
           /\ Len(obj.Thresholds) = m
           /\ Len(obj.Precision) = m + 1
           /\ Len(obj.Recall) = m + 1
           /\ obj.Recall[1] = One
           /\ \A j \in 0..(m - 1) :
                  /\ obj.Recall[j + 1] = Rat(HitsAmongLast(order, m - j), Positives)
                  /\ obj.Precision[j + 1] = Rat(HitsAmongLast(order, m - j), m - j)
                  /\ obj.Thresholds[j + 1] = ScoreAtRank(m - j)

\* The walk stopped before the last item, having passed a negative item and
\* two items of equal score.
C9_Witness ==
    /\ CurveRequested
    /\ obj.kind = "curve"
    /\ Positives >= 1
    /\ StopRank >= 2
    /\ StopRank < Len(labels)
    /\ HitsInTop(StopRank) < StopRank
    /\ \E j \in 1..(Len(obj.Thresholds) - 1) : obj.Thresholds[j] = obj.Thresholds[j + 1]

\* ------------------------------------------------------------------------
\* C10

\* C10: with no label > 0 (empty input included) the curve is exactly
\* Precision=[1.0], Recall=[0.0], Thresholds=[], and its AveragePrecision()
\* is 0.0.
C10_NoPositives ==
    (CurveRequested /\ Positives = 0) =>
        /\ obj = [kind |-> "curve", Precision |-> <<One>>, Recall |-> <<Zero>>,
                  Thresholds |-> <<>>, positives |-> 0]
        /\ call.op = "AveragePrecision" => ret = Returned(F64Zero)

\* AveragePrecision() returned for a curve of two items, one label negative.
C10_Witness ==
    /\ AveragePrecisionCalled
    /\ Positives = 0
    /\ Len(labels) >= 2
    /\ \E i \in 1..Len(labels) : labels[i] < 0
    /\ ret = Returned(F64Zero)

\* ------------------------------------------------------------------------
\* C11

\* One of the three gain methods was called on a ranking evaluation.
GainCalled ==
    /\ obj.kind = "ranking"
    /\ call.op \in {"CumulativeGain", "DiscountedCumulativeGain",
                    "NormalisedDiscountedCumulativeGain"}

\* C11: CumulativeGain(k), DiscountedCumulativeGain(k, rel) and
\* NormalisedDiscountedCumulativeGain(k, rel) each panic, returning no value,
\* for every k < 1 and every k > len(Relevancies); k is never clamped, and the
\* normalised gain panics too when all relevancies are 0 or there are none.
C11_OutOfBoundsKPanics ==
    (GainCalled /\ (call.k < 1 \/ call.k > Len(obj.Relevancies))) =>
        /\ pc = "panicked"
        /\ ret = Panic(KOutOfBounds)

\* CumulativeGain(n + 1) has panicked on a ranking of two items or more.
C11_Witness ==
    /\ GainCalled
    /\ call.op = "CumulativeGain"
    /\ Len(obj.Relevancies) >= 2
    /\ call.k = Len(obj.Relevancies) + 1
    /\ pc = "panicked"

\* ------------------------------------------------------------------------
\* C12

RPrecisionCalled == CurveRequested /\ obj.kind = "curve" /\ call.op = "RPrecision"

\* C12: for every curve built by NewPrecisionRecallCurve, RPrecision() reads an
\* index within the bounds of Precision and returns the precision at rank R,
\* R the number of label > 0 items: the fraction of the R highest-ranked items
\* whose label is > 0; with no positives it returns the anchor, 1.
C12_RPrecisionAtRankR ==
    RPrecisionCalled =>
        /\ Len(obj.Precision) - 1 - obj.positives \in 0..(Len(obj.Precision) - 1)
        /\ obj.positives = Positives
        /\ ret = Returned(IF Positives = 0 THEN One ELSE Rat(HitsInTop(Positives), Positives))

\* RPrecision() returned a proper fraction: a negative item is among the R
\* highest-ranked, R >= 2.
C12_Witness ==
    /\ RPrecisionCalled
    /\ Positives >= 2
    /\ ret.kind = "value"
    /\ RatLt(Zero, ret.val)
    /\ RatLt(ret.val, One)

\* ------------------------------------------------------------------------
\* C13

InterpolatedPrecisionAtCalled ==
    CurveRequested /\ obj.kind = "curve" /\ call.op = "InterpolatedPrecisionAt"

\* The indices (1-based) of the points whose recall is at least r.
AtOrAboveRecall(r) == {i \in 1..Len(obj.Recall) : RatLe(r, obj.Recall[i])}

\* C13: InterpolatedPrecisionAt(r) returns the maximum of Precision[i] over
\* the indices i with Recall[i] >= r, and 0.0 when there is none (every r > 0
\* on a curve with no positives, r > 1 on any curve); it never fails.
C13_MaxPrecisionAtOrAboveRecall ==
    InterpolatedPrecisionAtCalled =>
        /\ ret.kind = "value"
        /\ AtOrAboveRecall(call.r) = {} => ret.val = Zero
        /\ AtOrAboveRecall(call.r) # {} =>
               /\ \E i \in AtOrAboveRecall(call.r) : ret.val = obj.Precision[i]
               /\ \A i \in AtOrAboveRecall(call.r) : RatLe(obj.Precision[i], ret.val)
        /\ (Positives = 0 /\ RatLt(Zero, call.r)) => ret.val = Zero
        /\ RatLt(One, call.r) => ret.val = Zero

\* InterpolatedPrecisionAt(r) returned, for 0 < r <= 1, a maximum below 1 that
\* is reached at a point whose recall is exactly r.
C13_Witness ==
    /\ InterpolatedPrecisionAtCalled
    /\ RatLt(Zero, call.r)
    /\ RatLe(call.r, One)
    /\ ret.kind = "value"
    /\ RatLt(Zero, ret.val)
    /\ RatLt(ret.val, One)
    /\ \E i \in 1..Len(obj.Recall) :
           /\ obj.Recall[i] = call.r
           /\ obj.Precision[i] = ret.val
           /\ \A j \in 1..Len(obj.Recall) :
                  RatLt(call.r, obj.Recall[j]) => RatLt(obj.Precision[j], ret.val)

\* ------------------------------------------------------------------------
\* C14

\* NewConfusionMatrix was called with slices of equal length.
MatrixRequested ==
    /\ made.op = "NewConfusionMatrix"
    /\ Len(predictions) = Len(labels)

\* The number of items predicted positive or not (score >= threshold) and
\* actually positive or not (label = 1).
Tallied(predictedPositive, actualPositive) ==
    Cardinality({i \in 1..Len(labels) :
                    /\ (predictions[i] >= made.threshold) = predictedPositive
                    /\ (labels[i] = 1) = actualPositive})

\* C14: for equal-length inputs NewConfusionMatrix takes item i as predicted
\* positive iff scores[i] >= threshold and as actually positive iff
\* labels[i] = 1 (any other label, labels above 1 included, is negative);
\* Observations is n, Pos and Neg tally the actual classes, TruePos, FalseNeg,
\* FalsePos and TrueNeg the four combinations, and Pos = TruePos + FalseNeg,
\* Neg = FalsePos + TrueNeg, Pos + Neg = Observations.
C14_MatrixCounts ==
    MatrixRequested =>
        /\ obj.kind = "matrix"
        /\ obj.Observations = Len(labels)
        /\ obj.TruePos = Tallied(TRUE, TRUE)
        /\ obj.FalseNeg = Tallied(FALSE, TRUE)
        /\ obj.FalsePos = Tallied(TRUE, FALSE)
        /\ obj.TrueNeg = Tallied(FALSE, FALSE)
        /\ obj.Pos = Cardinality({i \in 1..Len(labels) : labels[i] = 1})
        /\ obj.Neg = Cardinality({i \in 1..Len(labels) : labels[i] # 1})
        /\ obj.Pos = obj.TruePos + obj.FalseNeg
        /\ obj.Neg = obj.FalsePos + obj.TrueNeg
        /\ obj.Pos + obj.Neg = obj.Observations

\* A matrix was built from a score equal to the threshold and a label above 1,
\* with a true positive and a false positive counted.
C14_Witness ==
    /\ MatrixRequested
    /\ obj.kind = "matrix"
    /\ \E i \in 1..Len(labels) : predictions[i] = made.threshold /\ labels[i] = 1
    /\ \E i \in 1..Len(labels) : predictions[i] >= made.threshold /\ labels[i] > 1
    /\ obj.TruePos >= 1
    /\ obj.FalsePos >= 1

\* ------------------------------------------------------------------------
\* C15

\* C15 as stated: AveragePrecision() of any curve lies in [0, 1]: the negated
\* sum of (Recall[i+1] - Recall[i]) * Precision[i] is never negative and never
\* exceeds 1.
C15_AveragePrecisionWithinUnitInterval ==
    AveragePrecisionCalled =>
        /\ ret.kind = "value"
        /\ ~F64Less(ret.val, F64Zero)
        /\ ~F64Less(F64One, ret.val)

\* ------------------------------------------------------------------------
\* C16

\* The sum of s[1], ..., s[upto].
RECURSIVE SumUpTo(_, _)
SumUpTo(s, upto) == IF upto = 0 THEN 0 ELSE s[upto] + SumUpTo(s, upto - 1)

\* The relevancies in predicted rank order: Relevancies[PredictedRankInd[i]].
RelevanciesAsRanked ==
    [i \in 1..Len(obj.PredictedRankInd) |-> obj.Relevancies[obj.PredictedRankInd[i] + 1]]

CumulativeGainCalled == obj.kind = "ranking" /\ call.op = "CumulativeGain"

\* C16: for 1 <= k <= n, CumulativeGain(k) is the sum of
\* Relevancies[PredictedRankInd[i]] for i in [0, k); CumulativeGain(n) is the
\* sum of all labels whatever the scores.
C16_GainIsSumOfTopK ==
    (CumulativeGainCalled /\ call.k >= 1 /\ call.k <= Len(obj.Relevancies)) =>
        /\ ret = Returned(Rat(SumUpTo(RelevanciesAsRanked, call.k), 1))
        /\ call.k = Len(labels) => ret = Returned(Rat(SumUpTo(labels, Len(labels)), 1))

\* CumulativeGain(k) returned, for 1 < k < n, a gain that is not the sum of
\* the first k labels as given.
C16_Witness ==
    /\ CumulativeGainCalled
    /\ call.k > 1
    /\ call.k < Len(labels)
    /\ ret.kind = "value"
    /\ ret # Returned(Rat(SumUpTo(labels, call.k), 1))

\* ------------------------------------------------------------------------
\* C17

\* NewRankingEvaluation was called with slices of equal length.
RankingRequested ==
    /\ made.op = "NewRankingEvaluation"
    /\ Len(predictions) = Len(labels)

\* ind is a permutation of 0..n-1 along which the keys never rise and, of two
\* items of equal key, the one later in the input comes first.
IsReversedStableOrder(ind, key) ==
    /\ Len(ind) = Len(key)
    /\ {ind[p] : p \in 1..Len(ind)} = 0..(Len(key) - 1)
    /\ \A p, q \in 1..Len(ind) :
           p < q =>
               /\ key[ind[p] + 1] >= key[ind[q] + 1]
               /\ key[ind[p] + 1] = key[ind[q] + 1] => ind[p] > ind[q]

\* C17 as stated: NewRankingEvaluation produces PredictedRankInd and
\* PerfectRankInd as the reversal of a stable ascending argsort of the scores
\* and of the labels: each is a permutation of 0..n-1 with keys non-increasing,
\* and for i < j of equal key, j appears before i.
C17_ReversedStableArgsort ==
    RankingRequested =>
        /\ obj.kind = "ranking"
        /\ IsReversedStableOrder(obj.PredictedRankInd, predictions)
        /\ IsReversedStableOrder(obj.PerfectRankInd, labels)

\* ------------------------------------------------------------------------
\* C18

\* NormalisedDiscountedCumulativeGain(k, rel) was called with 1 <= k <= n on
\* relevancies that are all >= 0 and not all 0.
NDCGCalledOnGradedRelevancies ==
    /\ obj.kind = "ranking"
    /\ call.op = "NormalisedDiscountedCumulativeGain"
    /\ call.k >= 1
    /\ call.k <= Len(obj.Relevancies)
    /\ \A i \in 1..Len(obj.Relevancies) : obj.Relevancies[i] >= 0
    /\ \E i \in 1..Len(obj.Relevancies) : obj.Relevancies[i] > 0

\* C18: for non-negative relevancies with at least one > 0 and rel either
\* TraditionalRelevancy or EmphasisedRelevancy, NormalisedDiscountedCumulativeGain(k, rel)
\* lies in [0, 1] for every 1 <= k <= n: the perfect top-k discounted gain is
\* strictly positive and the predicted one never exceeds it.
C18_NDCGWithinUnitInterval ==
    NDCGCalledOnGradedRelevancies =>
        /\ ret.kind = "value"
        /\ F64Less(F64Zero, IdealGain)
        /\ F64IsFinite(ret.val)
        /\ ~F64Less(ret.val, F64Zero)
        /\ ~F64Less(F64One, ret.val)

\* The ratio came out strictly between 0 and 1 at a cut-off k < n.
C18_Witness ==
    /\ NDCGCalledOnGradedRelevancies
    /\ call.k < Len(obj.Relevancies)
    /\ ret.kind = "value"
    /\ F64IsFinite(ret.val)
    /\ F64Less(F64Zero, ret.val)
    /\ F64Less(ret.val, F64One)
====
